---- MODULE Spec2Model ----
(***************************************************************************)
(* Model of the table comparison engine of db_compare_app.py (the same     *)
(* engine is copied in main.py, test1.py and test4.py): compare_table,     *)
(* sample_row_diffs, fetch_table_sample, the catalog/aggregate queries and *)
(* the batch loop of the "Compare" section that drives them.               *)
(*                                                                         *)
(* Every query sent to one of the two databases is one step of the model,  *)
(* because a query is where the program meets its environment: it may      *)
(* raise, and the except clause of compare_table then ends the comparison. *)
(***************************************************************************)
EXTENDS Integers, Sequences, FiniteSets, TLC

VARIABLES
    selected,   \* the table names picked in the multiselect, in list order
    limit,      \* the row cap handed to sample_row_diffs / TOP (n)
    dbsize,     \* largest number of rows a table of the two databases holds
    dbcols,     \* the column names the tables of the two databases are made of
    idx,        \* position of the for loop in selected (1-based)
    shown,      \* what the loop has displayed, one entry per compared table, in order
    db,         \* the old and the new side of the table being compared
    pc,         \* position of the program
    res,        \* the result dict of the running compare_table call
    loc,        \* local variables of compare_table / sample_row_diffs / fetch_table_sample
    queries,    \* queries issued so far for the current table (history)
    raised,     \* description of the exception caught for the current table, or None (history)
    conns,      \* the two connections of the with statement: "unopened", "open" or "closed"
    hist,       \* history of the current table: the result of an earlier call on it, the
                \* tables as they were when the call began, the writes made since
    quoted      \* the identifier last handed to quote_ident, and what it returned

vars == <<selected, limit, dbsize, dbcols, idx, shown, db, pc, res, loc, queries, raised, conns, hist, quoted>>

-----------------------------------------------------------------------------
(* Bounds of the model *)

MaxRows == 2        \* rows per table side in the single-table specification
MaxLimit == 2       \* largest row cap tried
MaxTables == 2      \* longest selection of the batch specification
BatchRows == 1      \* rows per table side in the batch specification
TwiceRows == 2      \* rows per table side when a table is compared twice
MaxWrites == 2      \* writes of other sessions during one comparison
MaxName == 4        \* characters of an identifier handed to quote_ident

TableNames == {"T1", "T2"}
ColNames == {"A", "B"}
BatchCols == {"A"}      \* the batch specification compares one-column tables
TwiceCols == {"B"}      \* a table compared twice has one column, of two texts
Test3Cols == {"A", "a"} \* column names that differ in case only

-----------------------------------------------------------------------------
(* Values *)

None == <<>>
Some(x) == <<x>>

IntCell(n) == [kind |-> "int", n |-> n, s |-> ""]
TextCell(s) == [kind |-> "text", n |-> 0, s |-> s]

\* the cell values a column of the modelled databases may hold
ValuesOf(c) ==
    IF c = "A" THEN {IntCell(1), TextCell("1")}
               ELSE {TextCell("x"), TextCell("y")}

Range(s) == {s[i] : i \in 1..Len(s)}

Min(a, b) == IF a <= b THEN a ELSE b

\* sequences over S without repetition, of length lo..hi
SeqsNoDup(S, lo, hi) ==
    UNION {{s \in [1..n -> S] : \A i, j \in 1..n : i # j => s[i] # s[j]} : n \in lo..hi}

\* all orderings of a finite set
Perms(S) == SeqsNoDup(S, Cardinality(S), Cardinality(S))

\* the tuples a table with column list cols may hold
RowsOf(cols) == {t \in [1..Len(cols) -> UNION {ValuesOf(c) : c \in Range(cols)}] :
                    \A i \in 1..Len(cols) : t[i] \in ValuesOf(cols[i])}

\* bags are functions from their support to positive multiplicities
RECURSIVE BagSize(_)
BagSize(b) ==
    IF DOMAIN b = {} THEN 0
    ELSE LET r == CHOOSE x \in DOMAIN b : TRUE
         IN b[r] + BagSize([x \in DOMAIN b \ {r} |-> b[x]])

Strip(f) == [r \in {x \in DOMAIN f : f[x] > 0} |-> f[r]]

\* every bag over R holding at most m rows
AllBags(R, m) ==
    UNION {{b \in [S -> 1..m] : BagSize(b) <= m} :
              S \in {X \in SUBSET R : Cardinality(X) <= m}}

\* every way of taking k rows out of bag b
SubBags(b, k) ==
    {Strip(s) : s \in {f \in [DOMAIN b -> 0..k] :
                          /\ \A r \in DOMAIN b : f[r] <= b[r]
                          /\ BagSize(Strip(f)) = k}}

-----------------------------------------------------------------------------
(* The two databases *)

EmptyBag == [r \in {} |-> 0]

NoTable == [exists |-> FALSE, cols |-> <<>>, rows |-> EmptyBag]

ColLists(names) == SeqsNoDup(names, 1, Cardinality(names))

\* what one side may hold for a table name: nothing, or a user table with at
\* least one column and at most m rows
Sides(m, names) ==
    {NoTable} \cup
    UNION {{[exists |-> TRUE, cols |-> c, rows |-> b] : b \in AllBags(RowsOf(c), m)} :
              c \in ColLists(names)}

-----------------------------------------------------------------------------
(* Queries, as the database answers them when it answers *)

\* q_columns: the column names of the user table in ordinal order; the
\* catalog has no row for a table that does not exist, so the list is empty
q_columns(side) == IF side.exists THEN side.cols ELSE <<>>

\* q_rowcount: COUNT_BIG(1)
q_rowcount(side) == BagSize(side.rows)

\* the code points of the characters the modelled text cells are made of
CharCode(s) == CASE s = "1" -> 49 [] s = "x" -> 120 [] s = "y" -> 121 [] OTHER -> 0

CellHash(c) == IF c.kind = "int" THEN c.n ELSE CharCode(c.s)

\* BINARY_CHECKSUM(*) of one row: a column-order-sensitive hash of the cells
\* (the width is cut to 16 bits; the modelled rows stay far below it)
RECURSIVE RowHash(_)
RowHash(t) ==
    IF Len(t) = 0 THEN 0
    ELSE (RowHash(SubSeq(t, 1, Len(t) - 1)) * 16 + CellHash(t[Len(t)])) % 65536

\* q_checksum: ISNULL(SUM(BINARY_CHECKSUM(*)), 0)
RECURSIVE q_checksum_rows(_)
q_checksum_rows(b) ==
    IF DOMAIN b = {} THEN 0
    ELSE LET r == CHOOSE x \in DOMAIN b : TRUE
         IN b[r] * RowHash(r) + q_checksum_rows([x \in DOMAIN b \ {r} |-> b[x]])

q_checksum(side) == q_checksum_rows(side.rows)

\* a query other than the catalog query names the table in FROM: it raises
\* when the table is not there
MissingTable == "42S02 invalid object name"
ConnFailure == "08S01 communication link failure"

\* every query, the catalog query too, raises on a table that does not exist
Failures_CatalogToo(side, readsTable) ==
    {ConnFailure} \cup (IF ~side.exists THEN {MissingTable} ELSE {})

\* the exceptions a query on side may raise: any query may lose the
\* connection; a query that reads the table raises when it does not exist
Failures(side, readsTable) ==
    {ConnFailure} \cup (IF readsTable /\ ~side.exists THEN {MissingTable} ELSE {})

\* a query on a missing table answers as on an empty one
Answers_Always(side, readsTable) == TRUE

Answers(side, readsTable) == ~readsTable \/ side.exists

-----------------------------------------------------------------------------
(* compare_table, pure parts *)

MissNewMsg(cs) == [kind |-> "miss_new", cols |-> cs, old |-> 0, new |-> 0, text |-> ""]
MissOldMsg(cs) == [kind |-> "miss_old", cols |-> cs, old |-> 0, new |-> 0, text |-> ""]
RowCountMsg(a, b) == [kind |-> "rowcount", cols |-> <<>>, old |-> a, new |-> b, text |-> ""]
ChecksumMsg == [kind |-> "checksum", cols |-> <<>>, old |-> 0, new |-> 0, text |-> ""]
ErrorMsg(e) == [kind |-> "error", cols |-> <<>>, old |-> 0, new |-> 0, text |-> e]

\* [c for c in xs if c not in ys]
NotIn(xs, ys) == LET Keep(c) == c \notin Range(ys) IN SelectSeq(xs, Keep)

\* [c for c in xs if c in ys]
AlsoIn(xs, ys) == LET Keep(c) == c \in Range(ys) IN SelectSeq(xs, Keep)

InitRes(t) ==
    [table |-> t, schema_equal |-> TRUE,
     rowcount_old |-> None, rowcount_new |-> None,
     checksum_old |-> None, checksum_new |-> None,
     ok |-> TRUE, messages |-> <<>>,
     only_in_old |-> <<>>, only_in_new |-> <<>>, columns_used |-> <<>>]

\* the schema check, also clearing ok on a mismatch
SchemaCheck_FlagsOk(r, cols_old, cols_new) ==
    IF cols_old # cols_new
    THEN LET miss_new == NotIn(cols_old, cols_new)
             miss_old == NotIn(cols_new, cols_old)
             m1 == IF miss_new # <<>> THEN <<MissNewMsg(miss_new)>> ELSE <<>>
             m2 == IF miss_old # <<>> THEN <<MissOldMsg(miss_old)>> ELSE <<>>
         IN [r EXCEPT !.schema_equal = FALSE, !.ok = FALSE, !.messages = @ \o m1 \o m2]
    ELSE r

\* the schema check, comparing the column lists as sets
SchemaCheck_AsSets(r, cols_old, cols_new) ==
    IF Range(cols_old) # Range(cols_new)
    THEN LET miss_new == NotIn(cols_old, cols_new)
             miss_old == NotIn(cols_new, cols_old)
             m1 == IF miss_new # <<>> THEN <<MissNewMsg(miss_new)>> ELSE <<>>
             m2 == IF miss_old # <<>> THEN <<MissOldMsg(miss_old)>> ELSE <<>>
         IN [r EXCEPT !.schema_equal = FALSE, !.messages = @ \o m1 \o m2]
    ELSE r

\* the schema check, appending both messages whatever the differences
SchemaCheck_BothMessages(r, cols_old, cols_new) ==
    IF cols_old # cols_new
    THEN LET miss_new == NotIn(cols_old, cols_new)
             miss_old == NotIn(cols_new, cols_old)
         IN [r EXCEPT !.schema_equal = FALSE,
                      !.messages = @ \o <<MissNewMsg(miss_new), MissOldMsg(miss_old)>>]
    ELSE r

\* lines 145-152: the schema check
SchemaCheck(r, cols_old, cols_new) ==
    IF cols_old # cols_new
    THEN LET miss_new == NotIn(cols_old, cols_new)
             miss_old == NotIn(cols_new, cols_old)
             m1 == IF miss_new # <<>> THEN <<MissNewMsg(miss_new)>> ELSE <<>>
             m2 == IF miss_old # <<>> THEN <<MissOldMsg(miss_old)>> ELSE <<>>
         IN [r EXCEPT !.schema_equal = FALSE, !.messages = @ \o m1 \o m2]
    ELSE r

\* the row count comparison, clearing ok without a message
RowCountCheck_NoMessage(r, n) ==
    LET r1 == [r EXCEPT !.rowcount_new = Some(n)]
    IN IF r1.rowcount_old # r1.rowcount_new THEN [r1 EXCEPT !.ok = FALSE] ELSE r1

\* the row count comparison, finding a mismatch whatever the counts
RowCountCheck_Always(r, n) ==
    LET r1 == [r EXCEPT !.rowcount_new = Some(n)]
    IN [r1 EXCEPT !.ok = FALSE,
                  !.messages = Append(@, RowCountMsg(r1.rowcount_old[1], n))]

\* lines 155-158: record the new row count and compare
RowCountCheck(r, n) ==
    LET r1 == [r EXCEPT !.rowcount_new = Some(n)]
    IN IF r1.rowcount_old # r1.rowcount_new
       THEN [r1 EXCEPT !.ok = FALSE,
                       !.messages = Append(@, RowCountMsg(r1.rowcount_old[1], n))]
       ELSE r1

\* the checksum comparison, with the test inverted
ChecksumCheck_Inverted(r, n) ==
    LET r1 == [r EXCEPT !.checksum_new = Some(n)]
    IN IF r1.checksum_old = r1.checksum_new
       THEN [r1 EXCEPT !.ok = FALSE, !.messages = Append(@, ChecksumMsg)]
       ELSE r1

\* the checksum comparison, reported only when nothing was reported before
ChecksumCheck_Merged(r, n) ==
    LET r1 == [r EXCEPT !.checksum_new = Some(n)]
    IN IF r1.checksum_old # r1.checksum_new /\ r1.ok
       THEN [r1 EXCEPT !.ok = FALSE, !.messages = Append(@, ChecksumMsg)]
       ELSE r1

\* lines 161-164: record the new checksum and compare
ChecksumCheck(r, n) ==
    LET r1 == [r EXCEPT !.checksum_new = Some(n)]
    IN IF r1.checksum_old # r1.checksum_new
       THEN [r1 EXCEPT !.ok = FALSE, !.messages = Append(@, ChecksumMsg)]
       ELSE r1

\* the except clause, leaving ok as it was
ExceptClause_KeepsOk(r, e) == [r EXCEPT !.messages = Append(@, ErrorMsg(e))]

\* the except clause, starting the result afresh
ExceptClause_Resets(r, e) ==
    [InitRes(r.table) EXCEPT !.ok = FALSE, !.messages = <<ErrorMsg(e)>>]

\* the except clause, putting its message first
ExceptClause_Prepends(r, e) ==
    [r EXCEPT !.ok = FALSE, !.messages = <<ErrorMsg(e)>> \o @]

\* lines 174-177: the except clause
ExceptClause(r, e) == [r EXCEPT !.ok = FALSE, !.messages = Append(@, ErrorMsg(e))]

-----------------------------------------------------------------------------
(* sample_row_diffs and fetch_table_sample, pure parts *)

\* the common columns in the order of the new side
common_columns_NewOrder(cols_old, cols_new) == AlsoIn(cols_new, cols_old)

\* common_columns: [c for c in cols_old if c in cols_new], old order kept
common_columns(cols_old, cols_new) == AlsoIn(cols_old, cols_new)

IndexOf(xs, c) == CHOOSE i \in 1..Len(xs) : xs[i] = c

\* the cells of tuple t (laid out as from) for the columns to, in that order
Project(t, from, to) == [i \in 1..Len(to) |-> t[IndexOf(from, to[i])]]

RECURSIVE SumOver(_, _)
SumOver(b, S) ==
    IF S = {} THEN 0
    ELSE LET r == CHOOSE x \in S : TRUE IN b[r] + SumOver(b, S \ {r})

ProjectBag(b, from, to) ==
    [p \in {Project(r, from, to) : r \in DOMAIN b} |->
        SumOver(b, {r \in DOMAIN b : Project(r, from, to) = p})]

EmptyFrame == [columns |-> <<>>, rows |-> EmptyBag]

\* the projection without the filter on the requested columns
UseCols_All(columns, all_cols) == all_cols

\* line 216: [c for c in (columns or all_cols) if c in all_cols] or all_cols
UseCols(columns, all_cols) ==
    LET asked == IF columns = <<>> THEN all_cols ELSE columns
        kept == AlsoIn(asked, all_cols)
    IN IF kept = <<>> THEN all_cols ELSE kept

\* s[:n]
Take(s, n) == SubSeq(s, 1, Min(n, Len(s)))

\* a SELECT without TOP: every row of the table
TopCount_All(top, n) == n

\* how many rows SELECT TOP (top) returns from a table of n rows
TopCount(top, n) == Min(top, n)

\* lines 221-226: the frame built from the rows the SELECT returned
Frame(side, use_cols, picked) ==
    [columns |-> use_cols, rows |-> ProjectBag(picked, side.cols, use_cols)]

Digit == <<"0", "1", "2", "3", "4", "5", "6", "7", "8", "9">>

\* str(x) of a cell value: decimal digits of an int, the text itself of a str
RECURSIVE IntStr(_)
IntStr(n) == IF n < 10 THEN Digit[n + 1] ELSE IntStr(n \div 10) \o Digit[(n % 10) + 1]

\* a conversion that keeps int and text apart
Str_Typed(c) == IF c.kind = "int" THEN "int 1" ELSE c.s

Str(c) == IF c.kind = "int" THEN IntStr(c.n) ELSE c.s

\* tuple(str(x) for x in row)
StrRow(t) == [i \in DOMAIN t |-> Str(t[i])]

\* lines 192-193: the set of string tuples of df[cols_use]; a frame cut down
\* to no column yields no tuple
TupleSet(df, cols_use) ==
    IF cols_use = <<>> THEN {}
    ELSE {StrRow(Project(r, df.columns, cols_use)) : r \in DOMAIN df.rows}

\* line 191
ColsUse(cols, df_old, df_new) ==
    LET Keep(c) == c \in Range(df_old.columns) /\ c \in Range(df_new.columns)
    IN SelectSeq(cols, Keep)

\* dict(zip(cols_use, t))
RowDict(cols_use, t) == [c \in Range(cols_use) |-> t[IndexOf(cols_use, c)]]

\* lines 198-199: to_dicts
to_dicts(cols_use, tuples_list, lim) ==
    Take([i \in 1..Len(tuples_list) |-> RowDict(cols_use, tuples_list[i])], lim)

-----------------------------------------------------------------------------
(* The program *)

NoIdent == [name |-> <<>>, text |-> <<>>]

NoConns == [old |-> "unopened", new |-> "unopened"]

InitHist(d) == [prev |-> None, db0 |-> d, writes |-> 0]

InitLoc ==
    [cols_old |-> <<>>, cols_new |-> <<>>, cols |-> <<>>, all_cols |-> <<>>,
     df_old |-> EmptyFrame, df_new |-> EmptyFrame]

\* the selections the multiselect can hold: no name twice
Selections(n) == SeqsNoDup(TableNames, 0, Min(n, Cardinality(TableNames)))

Start(sels, caps, size, names) ==
    /\ selected \in sels
    /\ limit \in caps
    /\ dbsize = size
    /\ dbcols = names
    /\ idx = 1
    /\ shown = <<>>
    /\ db = [old |-> NoTable, new |-> NoTable]
    /\ pc = "button"
    /\ res = InitRes("")
    /\ loc = InitLoc
    /\ queries = <<>>
    /\ raised = None
    /\ conns = NoConns
    /\ hist = InitHist(db)
    /\ quoted = NoIdent

\* one table is compared, with tables of up to MaxRows rows; compare_table
\* hands sample_row_diffs the cap 100, which stands to real tables as the
\* caps 0..MaxLimit stand to tables of up to MaxRows rows
Init == Start(Selections(1), 0..MaxLimit, MaxRows, ColNames)

\* a batch of up to MaxTables tables is compared
BatchInit == Start(Selections(MaxTables), {MaxLimit}, BatchRows, BatchCols)

Issue(q, s) == queries' = Append(queries, <<q, s>>)

\* the query raises and nothing catches it: the script run ends
Raises_Escapes(side, readsTable) ==
    \E e \in Failures(side, readsTable) :
        /\ raised' = Some(e)
        /\ pc' = "end"
        /\ UNCHANGED <<res, loc>>

\* the query raises and is tried again
Raises_Retry(side, readsTable) ==
    \E e \in Failures(side, readsTable) :
        /\ raised' = Some(e)
        /\ pc' = pc
        /\ UNCHANGED <<res, loc>>

\* the query raises: control passes to the except clause of compare_table
Raises(side, readsTable) ==
    \E e \in Failures(side, readsTable) :
        /\ res' = ExceptClause(res, e)
        /\ raised' = Some(e)
        /\ pc' = "return"
        /\ UNCHANGED loc

Batch == <<quoted, selected, limit, dbsize, dbcols, idx, shown, db, conns, hist>>

\* lines 79-80: pyodbc.connect returns an open connection or raises
open_conn == {"open", "unopened"}

\* line 285, leaving the with statement: the connection object is its own
\* context manager, and its __exit__ ends the transaction (commit, or
\* rollback when an exception passes through) and leaves the handle as it
\* is; nothing in the script calls close()
ConnectionExit(c) == c

\* lines 281-285: the button is pressed; an empty selection is answered
\* with a hint, otherwise the with statement opens the old and then the new
\* connection, and a connect() that raises ends the script run (the exit
\* of the old connection runs when the new one cannot be opened)
Click ==
    /\ pc = "button"
    /\ \/ /\ selected = <<>>
          /\ pc' = "end"
          /\ UNCHANGED conns
       \/ /\ selected # <<>>
          /\ \E o \in open_conn :
                \/ /\ o = "unopened"
                   /\ conns' = [conns EXCEPT !.old = o]
                   /\ pc' = "end"
                \/ /\ o = "open"
                   /\ \E n \in open_conn :
                         IF n = "open"
                         THEN /\ conns' = [old |-> o, new |-> n]
                              /\ pc' = "loop"
                         ELSE /\ conns' = [old |-> ConnectionExit(o), new |-> n]
                              /\ pc' = "end"
    /\ UNCHANGED <<quoted, selected, limit, dbsize, dbcols, idx, shown, db, res, loc, queries, raised, hist>>

\* lines 286-288 and 128-140: the loop calls compare_table for the next table
BeginTable ==
    /\ pc = "loop"
    /\ idx <= Len(selected)
    /\ db' \in [old : Sides(dbsize, dbcols), new : Sides(dbsize, dbcols)]
    /\ res' = InitRes(selected[idx])
    /\ loc' = InitLoc
    /\ queries' = <<>>
    /\ raised' = None
    /\ pc' = "cols_old"
    /\ hist' = InitHist(db')
    /\ UNCHANGED <<quoted, selected, limit, dbsize, dbcols, idx, shown, conns>>

\* line 143
ColumnsOld ==
    /\ pc = "cols_old"
    /\ Issue("q_columns", "old")
    /\ \/ /\ loc' = [loc EXCEPT !.cols_old = q_columns(db.old)]
          /\ pc' = "cols_new"
          /\ UNCHANGED <<res, raised>>
       \/ Raises(db.old, FALSE)
    /\ UNCHANGED Batch

\* a schema mismatch ends the comparison
ColumnsNew_EarlyExit ==
    /\ pc = "cols_new"
    /\ Issue("q_columns", "new")
    /\ \/ /\ loc' = [loc EXCEPT !.cols_new = q_columns(db.new)]
          /\ res' = SchemaCheck(res, loc.cols_old, q_columns(db.new))
          /\ pc' = IF res'.schema_equal THEN "rowcount_old" ELSE "return"
          /\ UNCHANGED raised
       \/ Raises(db.new, FALSE)
    /\ UNCHANGED Batch

\* lines 144-152
ColumnsNew ==
    /\ pc = "cols_new"
    /\ Issue("q_columns", "new")
    /\ \/ /\ loc' = [loc EXCEPT !.cols_new = q_columns(db.new)]
          /\ res' = SchemaCheck(res, loc.cols_old, q_columns(db.new))
          /\ pc' = "rowcount_old"
          /\ UNCHANGED raised
       \/ Raises(db.new, FALSE)
    /\ UNCHANGED Batch

\* line 154
RowcountOld ==
    /\ pc = "rowcount_old"
    /\ Issue("q_rowcount", "old")
    /\ \/ /\ Answers(db.old, TRUE)
          /\ res' = [res EXCEPT !.rowcount_old = Some(q_rowcount(db.old))]
          /\ pc' = "rowcount_new"
          /\ UNCHANGED <<loc, raised>>
       \/ Raises(db.old, TRUE)
    /\ UNCHANGED Batch

\* lines 155-158
RowcountNew ==
    /\ pc = "rowcount_new"
    /\ Issue("q_rowcount", "new")
    /\ \/ /\ Answers(db.new, TRUE)
          /\ res' = RowCountCheck(res, q_rowcount(db.new))
          /\ pc' = "checksum_old"
          /\ UNCHANGED <<loc, raised>>
       \/ Raises(db.new, TRUE)
    /\ UNCHANGED Batch

\* line 160
ChecksumOld ==
    /\ pc = "checksum_old"
    /\ Issue("q_checksum", "old")
    /\ \/ /\ Answers(db.old, TRUE)
          /\ res' = [res EXCEPT !.checksum_old = Some(q_checksum(db.old))]
          /\ pc' = "checksum_new"
          /\ UNCHANGED <<loc, raised>>
       \/ Raises(db.old, TRUE)
    /\ UNCHANGED Batch

\* the cap, off by one
SampleCap_OffByOne == limit + 1

\* line 168 and 179: the cap sample_row_diffs works with is the limit it is handed
SampleCap == limit

\* the set difference, taken the wrong way round
OnlyIn_Swapped(a, b) == b \ a

\* a difference that finds nothing
OnlyIn_None(a, b) == {}

\* lines 195-196: the rows of a that are not in b
OnlyIn(a, b) == a \ b

\* sample after every comparison
NeedsSample_Always(r) == TRUE

\* line 167: sample only when the probes found a difference
NeedsSample(r) == ~r.ok

\* lines 161-167 and 173
ChecksumNew ==
    /\ pc = "checksum_new"
    /\ Issue("q_checksum", "new")
    /\ \/ /\ Answers(db.new, TRUE)
          /\ res' = ChecksumCheck(res, q_checksum(db.new))
          /\ pc' = IF NeedsSample(res') THEN "common_old" ELSE "return"
          /\ UNCHANGED <<loc, raised>>
       \/ Raises(db.new, TRUE)
    /\ UNCHANGED Batch

\* lines 183 and 116
CommonOld ==
    /\ pc = "common_old"
    /\ Issue("q_columns", "old")
    /\ \/ /\ loc' = [loc EXCEPT !.cols_old = q_columns(db.old)]
          /\ pc' = "common_new"
          /\ UNCHANGED <<res, raised>>
       \/ Raises(db.old, FALSE)
    /\ UNCHANGED Batch

\* the empty projection is not noticed
SkipsSample_Never(cols) == FALSE

\* lines 184-185: nothing to project on
SkipsSample(cols) == cols = <<>>

\* lines 117-118, 184-185 and, when there is no common column, 169-173
CommonNew ==
    /\ pc = "common_new"
    /\ Issue("q_columns", "new")
    /\ \/ LET cols == common_columns(loc.cols_old, q_columns(db.new)) IN
          /\ loc' = [loc EXCEPT !.cols_new = q_columns(db.new), !.cols = cols]
          /\ IF SkipsSample(cols)
             THEN /\ res' = [res EXCEPT !.only_in_old = <<>>, !.only_in_new = <<>>,
                                        !.columns_used = <<>>]
                  /\ pc' = "return"
             ELSE /\ pc' = "fetch_old_columns"
                  /\ UNCHANGED res
          /\ UNCHANGED raised
       \/ Raises(db.new, FALSE)
    /\ UNCHANGED Batch

\* lines 187 and 211-214: fetch_table_sample(conn_old) reads the catalog
FetchOldColumns ==
    /\ pc = "fetch_old_columns"
    /\ Issue("q_columns", "old")
    /\ \/ LET all_cols == q_columns(db.old) IN
          /\ loc' = [loc EXCEPT !.all_cols = all_cols, !.df_old = EmptyFrame]
          /\ pc' = IF all_cols = <<>> THEN "fetch_new_columns" ELSE "fetch_old_rows"
          /\ UNCHANGED <<res, raised>>
       \/ Raises(db.old, FALSE)
    /\ UNCHANGED Batch

\* lines 216-227: fetch_table_sample(conn_old) selects TOP (limit)
FetchOldRows ==
    /\ pc = "fetch_old_rows"
    /\ Issue("select_top", "old")
    /\ \/ /\ Answers(db.old, TRUE)
          /\ \E picked \in SubBags(db.old.rows, TopCount(SampleCap, BagSize(db.old.rows))) :
                loc' = [loc EXCEPT !.df_old =
                           Frame(db.old, UseCols(loc.cols, loc.all_cols), picked)]
          /\ pc' = "fetch_new_columns"
          /\ UNCHANGED <<res, raised>>
       \/ Raises(db.old, TRUE)
    /\ UNCHANGED Batch

\* lines 188 and 211-214: fetch_table_sample(conn_new) reads the catalog
FetchNewColumns ==
    /\ pc = "fetch_new_columns"
    /\ Issue("q_columns", "new")
    /\ \/ LET all_cols == q_columns(db.new) IN
          /\ loc' = [loc EXCEPT !.all_cols = all_cols, !.df_new = EmptyFrame]
          /\ pc' = IF all_cols = <<>> THEN "diff" ELSE "fetch_new_rows"
          /\ UNCHANGED <<res, raised>>
       \/ Raises(db.new, FALSE)
    /\ UNCHANGED Batch

\* lines 216-227: fetch_table_sample(conn_new) selects TOP (limit)
FetchNewRows ==
    /\ pc = "fetch_new_rows"
    /\ Issue("select_top", "new")
    /\ \/ /\ Answers(db.new, TRUE)
          /\ \E picked \in SubBags(db.new.rows, TopCount(SampleCap, BagSize(db.new.rows))) :
                loc' = [loc EXCEPT !.df_new =
                           Frame(db.new, UseCols(loc.cols, loc.all_cols), picked)]
          /\ pc' = "diff"
          /\ UNCHANGED <<res, raised>>
       \/ Raises(db.new, TRUE)
    /\ UNCHANGED Batch

\* lines 191-201 and 168-173: the set difference; list(set) yields the
\* tuples in an order the program does not control
Diff ==
    /\ pc = "diff"
    /\ LET cols_use == ColsUse(loc.cols, loc.df_old, loc.df_new)
           set_old == TupleSet(loc.df_old, cols_use)
           set_new == TupleSet(loc.df_new, cols_use)
       IN \E only_old \in Perms(OnlyIn(set_old, set_new)),
             only_new \in Perms(OnlyIn(set_new, set_old)) :
             res' = [res EXCEPT !.only_in_old = to_dicts(cols_use, only_old, SampleCap),
                                !.only_in_new = to_dicts(cols_use, only_new, SampleCap),
                                !.columns_used = cols_use]
    /\ pc' = "return"
    /\ UNCHANGED <<loc, queries, raised>>
    /\ UNCHANGED Batch

\* the status decided on schema_equal first
Status_SchemaFirst(r) ==
    IF ~r.schema_equal THEN "schema_drifted"
    ELSE IF r.ok THEN "identical" ELSE "content_different"

\* lines 290-295: the status line shown for a result
Status(r) ==
    IF r.ok /\ r.schema_equal THEN "identical"
    ELSE IF r.ok /\ ~r.schema_equal THEN "schema_drifted"
    ELSE "content_different"

\* lines 288-: compare_table has returned; the loop shows the result and
\* goes on to the next table (the result, the locals and the view of the
\* compared table go out of use)
EndTable ==
    /\ pc = "return"
    /\ shown' = Append(shown, [table |-> res.table, ok |-> res.ok,
                                schema_equal |-> res.schema_equal,
                                failed |-> raised # None,
                                status |-> Status(res)])
    /\ idx' = idx + 1
    /\ pc' = "loop"
    /\ db' = [old |-> NoTable, new |-> NoTable]
    /\ res' = InitRes("")
    /\ loc' = InitLoc
    /\ queries' = <<>>
    /\ raised' = None
    /\ hist' = InitHist(db')
    /\ UNCHANGED <<quoted, selected, limit, dbsize, dbcols, conns>>

\* lines 285-286: the loop is exhausted and the with statement is left
Finish ==
    /\ pc = "loop"
    /\ idx > Len(selected)
    /\ pc' = "end"
    /\ conns' = [old |-> ConnectionExit(conns.old), new |-> ConnectionExit(conns.new)]
    /\ UNCHANGED <<quoted, selected, limit, dbsize, dbcols, idx, shown, db, res, loc, queries, raised, hist>>

Next ==
    \/ Click
    \/ BeginTable
    \/ ColumnsOld
    \/ ColumnsNew
    \/ RowcountOld
    \/ RowcountNew
    \/ ChecksumOld
    \/ ChecksumNew
    \/ CommonOld
    \/ CommonNew
    \/ FetchOldColumns
    \/ FetchOldRows
    \/ FetchNewColumns
    \/ FetchNewRows
    \/ Diff
    \/ EndTable
    \/ Finish

Spec == Init /\ [][Next]_vars

\* the program is sequential and every query returns or raises: a step that
\* can be taken is taken
BatchSpec == BatchInit /\ [][Next]_vars /\ WF_vars(Next)

-----------------------------------------------------------------------------
(* The same table compared twice *)

\* the second call starts on the result of the first
Again_KeepsMessages ==
    /\ pc = "return"
    /\ hist.prev = None
    /\ hist' = [hist EXCEPT !.prev = Some([res |-> res, raised |-> raised])]
    /\ res' = [InitRes(res.table) EXCEPT !.messages = res.messages]
    /\ loc' = InitLoc
    /\ queries' = <<>>
    /\ raised' = None
    /\ pc' = "cols_old"
    /\ UNCHANGED <<quoted, selected, limit, dbsize, dbcols, idx, shown, db, conns>>

\* lines 288 and 128-140: compare_table is called a second time for the
\* table it has just returned a result for, with the same two connections;
\* the call builds its own res and keeps nothing of the first call (the
\* first result and how it ended are remembered in hist for the comparison)
Again ==
    /\ pc = "return"
    /\ hist.prev = None
    /\ hist' = [hist EXCEPT !.prev = Some([res |-> res, raised |-> raised])]
    /\ res' = InitRes(res.table)
    /\ loc' = InitLoc
    /\ queries' = <<>>
    /\ raised' = None
    /\ pc' = "cols_old"
    /\ UNCHANGED <<quoted, selected, limit, dbsize, dbcols, idx, shown, db, conns>>

\* one table of one-column sides with up to TwiceRows rows
TwiceInit == Start(Selections(1), 0..MaxLimit, TwiceRows, TwiceCols)

TwiceNext == Next \/ Again

TwiceSpec == TwiceInit /\ [][TwiceNext]_vars

-----------------------------------------------------------------------------
(* A table compared while other sessions write to it *)

Inserted(b, r) ==
    [x \in DOMAIN b \cup {r} |-> IF x \in DOMAIN b THEN b[x] + (IF x = r THEN 1 ELSE 0) ELSE 1]

Deleted(b, r) == Strip([x \in DOMAIN b |-> IF x = r THEN b[x] - 1 ELSE b[x]])

\* what a table may hold after one row has been inserted or deleted
Written(side) ==
    {Inserted(side.rows, r) : r \in {x \in RowsOf(side.cols) : BagSize(side.rows) < dbsize}}
        \cup {Deleted(side.rows, r) : r \in DOMAIN side.rows}

\* the program is somewhere between the first and the last line of compare_table
Comparing == pc \notin {"button", "loop", "return", "end"}

\* lines 102 and 109-111: the aggregates are read WITH (NOLOCK) by separate
\* queries, so that another session may insert or delete a row of either
\* table between any two queries of a comparison
Write ==
    /\ Comparing
    /\ hist.writes < MaxWrites
    /\ \E s \in {"old", "new"} :
          /\ db[s].exists
          /\ \E b \in Written(db[s]) : db' = [db EXCEPT ![s].rows = b]
    /\ hist' = [hist EXCEPT !.writes = @ + 1]
    /\ UNCHANGED <<quoted, selected, limit, dbsize, dbcols, idx, shown, conns, pc, res, loc, queries, raised>>

WriterInit == Start(Selections(1), {MaxLimit}, BatchRows, TwiceCols)

WriterNext == Next \/ Write

WriterSpec == WriterInit /\ [][WriterNext]_vars

-----------------------------------------------------------------------------
(* The Data Preview section: fetch_table_sample called with a projection    *)
(* and a cap chosen in the page (WHERE and ORDER BY left blank)             *)

\* line 342: the columns offered to the column picker
common_cols(cols_old, cols_new) ==
    LET both == AlsoIn(cols_old, cols_new)
    IN IF both # <<>> THEN both ELSE IF cols_old # <<>> THEN cols_old ELSE cols_new

\* line 348: what the column picker may hold, any of the offered columns
Pickable(offered) == SeqsNoDup(Range(offered), 0, Len(offered))

\* lines 338-339: a table is chosen and the with statement opens the two
\* connections; a connect() that raises ends the script run
PreviewOpen ==
    /\ pc = "button"
    /\ \E o \in open_conn :
          \/ /\ o = "unopened"
             /\ conns' = [conns EXCEPT !.old = o]
             /\ pc' = "end"
             /\ UNCHANGED <<db, hist>>
          \/ /\ o = "open"
             /\ \E n \in open_conn :
                   IF n = "open"
                   THEN /\ conns' = [old |-> o, new |-> n]
                        /\ db' \in [old : Sides(dbsize, dbcols), new : Sides(dbsize, dbcols)]
                        /\ hist' = InitHist(db')
                        /\ pc' = "pv_cols_old"
                   ELSE /\ conns' = [old |-> ConnectionExit(o), new |-> n]
                        /\ pc' = "end"
                        /\ UNCHANGED <<db, hist>>
    /\ UNCHANGED <<quoted, selected, limit, dbsize, dbcols, idx, shown, res, loc, queries, raised>>

\* a query outside every try block raises: the script run ends, leaving the
\* with statement
PreviewAborts(side) ==
    \E e \in Failures(side, FALSE) :
        /\ raised' = Some(e)
        /\ pc' = "end"
        /\ conns' = [old |-> ConnectionExit(conns.old), new |-> ConnectionExit(conns.new)]
        /\ UNCHANGED loc

PreviewRest == <<quoted, selected, limit, dbsize, dbcols, idx, db, res, hist>>

\* line 340
PreviewColumnsOld ==
    /\ pc = "pv_cols_old"
    /\ Issue("q_columns", "old")
    /\ \/ /\ loc' = [loc EXCEPT !.cols_old = q_columns(db.old)]
          /\ pc' = "pv_cols_new"
          /\ UNCHANGED <<raised, conns>>
       \/ PreviewAborts(db.old)
    /\ UNCHANGED shown
    /\ UNCHANGED PreviewRest

\* lines 341-361: the new column list is read, the picker is filled and
\* the preview button is pressed with some columns picked, or none;
\* use_cols = picked_cols or common_cols
PreviewColumnsNew ==
    /\ pc = "pv_cols_new"
    /\ Issue("q_columns", "new")
    /\ \/ /\ \E picked_cols \in Pickable(common_cols(loc.cols_old, q_columns(db.new))) :
                loc' = [loc EXCEPT !.cols_new = q_columns(db.new),
                                   !.cols = IF picked_cols # <<>> THEN picked_cols
                                            ELSE common_cols(loc.cols_old, q_columns(db.new))]
          /\ pc' = "pv_old_columns"
          /\ UNCHANGED <<raised, conns>>
       \/ PreviewAborts(db.new)
    /\ UNCHANGED shown
    /\ UNCHANGED PreviewRest

\* lines 372-373 and 384-385: a query of fetch_table_sample raises and the
\* except clause around the call reports it; no frame is displayed
PreviewCaught(side, readsTable, after) ==
    \E e \in Failures(side, readsTable) :
        /\ raised' = Some(e)
        /\ pc' = after
        /\ UNCHANGED <<loc, shown>>

\* lines 211-214: fetch_table_sample reads the catalog of side s and
\* returns an empty frame, which is displayed, when it finds no column
PreviewFetchColumns(s, rows, after) ==
    /\ Issue("q_columns", s)
    /\ \/ LET all_cols == q_columns(db[s]) IN
          /\ loc' = [loc EXCEPT !.all_cols = all_cols]
          /\ IF all_cols = <<>>
             THEN /\ shown' = Append(shown, [side |-> s, df |-> EmptyFrame])
                  /\ pc' = after
             ELSE /\ pc' = rows
                  /\ UNCHANGED shown
          /\ UNCHANGED raised
       \/ PreviewCaught(db[s], FALSE, after)
    /\ UNCHANGED conns
    /\ UNCHANGED PreviewRest

\* lines 216-227: fetch_table_sample selects TOP (top_n) of the projection
\* from side s; the frame is displayed
PreviewFetchRows(s, after) ==
    /\ Issue("select_top", s)
    /\ \/ /\ Answers(db[s], TRUE)
          /\ \E picked \in SubBags(db[s].rows, TopCount(limit, BagSize(db[s].rows))) :
                shown' = Append(shown,
                    [side |-> s, df |-> Frame(db[s], UseCols(loc.cols, loc.all_cols), picked)])
          /\ pc' = after
          /\ UNCHANGED <<loc, raised>>
       \/ PreviewCaught(db[s], TRUE, after)
    /\ UNCHANGED conns
    /\ UNCHANGED PreviewRest

\* line 366
PreviewOldColumns == pc = "pv_old_columns" /\ PreviewFetchColumns("old", "pv_old_rows", "pv_new_columns")

PreviewOldRows == pc = "pv_old_rows" /\ PreviewFetchRows("old", "pv_new_columns")

\* line 378
PreviewNewColumns == pc = "pv_new_columns" /\ PreviewFetchColumns("new", "pv_new_rows", "pv_close")

PreviewNewRows == pc = "pv_new_rows" /\ PreviewFetchRows("new", "pv_close")

\* line 339: the with statement is left
PreviewClose ==
    /\ pc = "pv_close"
    /\ pc' = "end"
    /\ conns' = [old |-> ConnectionExit(conns.old), new |-> ConnectionExit(conns.new)]
    /\ UNCHANGED <<shown, loc, queries, raised>>
    /\ UNCHANGED PreviewRest

\* line 354: the cap is at least 1
PreviewInit == Start({<<>>}, 1..MaxLimit, TwiceRows, ColNames)

PreviewNext ==
    \/ PreviewOpen
    \/ PreviewColumnsOld
    \/ PreviewColumnsNew
    \/ PreviewOldColumns
    \/ PreviewOldRows
    \/ PreviewNewColumns
    \/ PreviewNewRows
    \/ PreviewClose

PreviewSpec == PreviewInit /\ [][PreviewNext]_vars

-----------------------------------------------------------------------------
(* The engine of test3.py: its compare_table and q_sample_diff, run on the  *)
(* tables db_compare_app.py has just compared, one step per phase           *)

\* c.lower()
Lower(c) == CASE c = "A" -> "a" [] c = "B" -> "b" [] OTHER -> c

LowerAll(cols) == [i \in DOMAIN cols |-> Lower(cols[i])]

\* test3.py lines 230-241: the schema check, on lower-cased names
T3SchemaCheck(r, cols_old, cols_new) ==
    LET names_old == LowerAll(cols_old)
        names_new == LowerAll(cols_new)
    IN IF names_old # names_new
       THEN LET miss_in_new == NotIn(names_old, names_new)
                miss_in_old == NotIn(names_new, names_old)
            IN [r EXCEPT !.schema_equal = FALSE,
                         !.messages = @ \o (IF miss_in_new # <<>> THEN <<MissNewMsg(miss_in_new)>> ELSE <<>>)
                                         \o (IF miss_in_old # <<>> THEN <<MissOldMsg(miss_in_old)>> ELSE <<>>)]
       ELSE r

\* test3.py lines 162-168 and 190-197: SELECT TOP (limit) cols FROM t
\* EXCEPT SELECT cols FROM t, both halves on the table of the connection
\* the statement is run on; picked are the rows TOP took
ExceptSelf(side, cols, picked) ==
    {Project(r, side.cols, cols) : r \in DOMAIN picked}
        \ {Project(r, side.cols, cols) : r \in DOMAIN side.rows}

\* test3.py lines 209-212: the dicts of list(rows)[:100], native values
T3Dicts(cols, tuples_list, lim) ==
    Take([i \in 1..Len(tuples_list) |-> RowDict(cols, tuples_list[i])], lim)

\* test3.py lines 266-269: a query raised, the except clause returns
T3Except(r, side, readsTable) ==
    \E e \in Failures(side, readsTable) :
        /\ res' = ExceptClause(r, e)
        /\ raised' = Some(e)
        /\ pc' = "return"

\* test3.py line 221: compare_table of test3.py is called for the table
\* whose result compare_table of db_compare_app.py has just returned (the
\* first result and how it ended are remembered in hist)
Test3Call ==
    /\ pc = "return"
    /\ hist.prev = None
    /\ hist' = [hist EXCEPT !.prev = Some([res |-> res, raised |-> raised])]
    /\ res' = InitRes(res.table)
    /\ loc' = InitLoc
    /\ queries' = <<>>
    /\ raised' = None
    /\ pc' = "t3_schema"
    /\ UNCHANGED <<quoted, selected, limit, dbsize, dbcols, idx, shown, db, conns>>

Asked(qs) == queries' = queries \o qs

\* test3.py lines 226-241
T3Schema ==
    /\ pc = "t3_schema"
    /\ \/ /\ Asked(<< <<"q_columns", "old">> >>)
          /\ T3Except(res, db.old, FALSE)
       \/ /\ Asked(<< <<"q_columns", "old">>, <<"q_columns", "new">> >>)
          /\ \/ T3Except(res, db.new, FALSE)
             \/ /\ res' = T3SchemaCheck(res, q_columns(db.old), q_columns(db.new))
                /\ pc' = "t3_rowcount"
                /\ UNCHANGED raised
    /\ UNCHANGED loc
    /\ UNCHANGED Batch

\* test3.py lines 243-248
T3RowCount ==
    /\ pc = "t3_rowcount"
    /\ \/ /\ Asked(<< <<"q_rowcount", "old">> >>)
          /\ T3Except(res, db.old, TRUE)
       \/ /\ Answers(db.old, TRUE)
          /\ Asked(<< <<"q_rowcount", "old">>, <<"q_rowcount", "new">> >>)
          /\ LET r1 == [res EXCEPT !.rowcount_old = Some(q_rowcount(db.old))]
             IN \/ T3Except(r1, db.new, TRUE)
                \/ /\ Answers(db.new, TRUE)
                   /\ res' = RowCountCheck(r1, q_rowcount(db.new))
                   /\ pc' = "t3_checksum"
                   /\ UNCHANGED raised
    /\ UNCHANGED loc
    /\ UNCHANGED Batch

\* test3.py lines 250-264
T3Checksum ==
    /\ pc = "t3_checksum"
    /\ \/ /\ Asked(<< <<"q_checksum", "old">> >>)
          /\ T3Except(res, db.old, TRUE)
       \/ /\ Answers(db.old, TRUE)
          /\ Asked(<< <<"q_checksum", "old">>, <<"q_checksum", "new">> >>)
          /\ LET r1 == [res EXCEPT !.checksum_old = Some(q_checksum(db.old))]
             IN \/ T3Except(r1, db.new, TRUE)
                \/ /\ Answers(db.new, TRUE)
                   /\ res' = ChecksumCheck(r1, q_checksum(db.new))
                   /\ pc' = IF ~res'.ok THEN "t3_sample" ELSE "return"
                   /\ UNCHANGED raised
    /\ UNCHANGED loc
    /\ UNCHANGED Batch

\* the queries of q_sample_diff, in order: common_columns, then exec_except
\* twice, each fetching from old and from new
T3SampleQueries ==
    << <<"q_columns", "old">>, <<"q_columns", "new">>,
       <<"select_except", "old">>, <<"select_except", "new">>,
       <<"select_except", "old">>, <<"select_except", "new">> >>

\* what TOP (limit) may take from the table of side
T3Picks(side) == SubBags(side.rows, TopCount(limit, BagSize(side.rows)))

\* test3.py lines 151-212 and 260-264: q_sample_diff and exec_except
T3SampleDiff ==
    /\ pc = "t3_sample"
    /\ LET cols == common_columns(q_columns(db.old), q_columns(db.new)) IN
       \/ \E k \in 1..6 :
             /\ k > 2 => cols # <<>>
             /\ Asked(SubSeq(T3SampleQueries, 1, k))
             /\ T3Except(res, db[T3SampleQueries[k][2]], k > 2)
       \/ /\ cols = <<>>
          /\ Asked(SubSeq(T3SampleQueries, 1, 2))
          /\ res' = [res EXCEPT !.only_in_old = <<>>, !.only_in_new = <<>>,
                                 !.columns_used = <<>>]
          /\ pc' = "return"
          /\ UNCHANGED raised
       \/ /\ cols # <<>>
          /\ Asked(T3SampleQueries)
          /\ \E o1 \in T3Picks(db.old), n1 \in T3Picks(db.new),
                o2 \in T3Picks(db.old), n2 \in T3Picks(db.new) :
                LET rows_old == ExceptSelf(db.old, cols, o1) \ ExceptSelf(db.new, cols, n1)
                    rows_new == ExceptSelf(db.new, cols, n2) \ ExceptSelf(db.old, cols, o2)
                IN \E only_old \in Perms(rows_old), only_new \in Perms(rows_new) :
                      res' = [res EXCEPT !.only_in_old = T3Dicts(cols, only_old, SampleCap),
                                         !.only_in_new = T3Dicts(cols, only_new, SampleCap),
                                         !.columns_used = cols]
          /\ pc' = "return"
          /\ UNCHANGED raised
    /\ UNCHANGED loc
    /\ UNCHANGED Batch

Test3Init == Start(Selections(1), {MaxLimit}, BatchRows, Test3Cols)

Test3Next == Next \/ Test3Call \/ T3Schema \/ T3RowCount \/ T3Checksum \/ T3SampleDiff

Test3Spec == Test3Init /\ [][Test3Next]_vars

-----------------------------------------------------------------------------
(* quote_ident, applied to the table and column names of every query; a     *)
(* text is modelled as the sequence of its characters                       *)

\* the characters identifiers are made of here: a letter and the two brackets
Chars == {"a", "[", "]"}

Names == UNION {[1..n -> Chars] : n \in 0..MaxName}

\* name.replace(']', ']]')
RECURSIVE Replace(_)
Replace(name) ==
    IF name = <<>> THEN <<>>
    ELSE (IF Head(name) = "]" THEN <<"]", "]">> ELSE <<Head(name)>>) \o Replace(Tail(name))

\* the brackets put around the name as it is
quote_ident_NoDoubling(name) == <<"[">> \o name \o <<"]">>

\* lines 18-20: f"[{name.replace(']', ']]')}]"
quote_ident(name) == <<"[">> \o Replace(name) \o <<"]">>

\* lines 102, 109 and 216-221: a query text is built for some identifier
QuoteIdent ==
    /\ \E name \in Names : quoted' = [name |-> name, text |-> quote_ident(name)]
    /\ UNCHANGED <<selected, limit, dbsize, dbcols, idx, shown, db, pc, res, loc,
                   queries, raised, conns, hist>>

QuoteInit == Start({<<>>}, {MaxLimit}, BatchRows, BatchCols)

QuoteSpec == QuoteInit /\ [][QuoteIdent]_vars

-----------------------------------------------------------------------------
(* Properties *)

\* compare_table has returned res to the loop
Returned == pc = "return"

\* both catalog reads of the schema check have answered
SchemaRead == Len(queries) >= 2 /\ ~(Len(queries) = 2 /\ raised # None)

ProbesMatch ==
    /\ res.rowcount_old = res.rowcount_new
    /\ res.checksum_old = res.checksum_new

MessagesOf(kinds) == LET Keep(m) == m.kind \in kinds IN SelectSeq(res.messages, Keep)

\* C1 as stated: in every returned result, the exception path included, ok
\* is true exactly when the recorded row counts are equal and the recorded
\* checksums are equal.
C1_OkIffProbesMatchOnEveryPath == Returned => (res.ok <=> ProbesMatch)

\* C1 amended: in every result returned without an exception, ok is true
\* exactly when the recorded row counts are equal and the recorded checksums
\* are equal, whatever schema_equal is; in every result returned by the
\* except clause ok is false, whatever was recorded.
C1_OkIffProbesMatch ==
    Returned => IF raised # None THEN ~res.ok ELSE (res.ok <=> ProbesMatch)

\* a result that is ok although the schemas differ
C1_Witness == Returned /\ raised = None /\ res.ok /\ ~res.schema_equal

\* C2: once both catalog reads have answered, schema_equal is false exactly
\* when the two ordered column-name sequences differ; a pure reordering counts
\* as a difference.
C2_SchemaEqualIffSameSequence ==
    SchemaRead => (res.schema_equal = FALSE <=> q_columns(db.old) # q_columns(db.new))

\* old = (A, B), new = (B, A)
C2_Witness ==
    /\ Returned /\ SchemaRead
    /\ q_columns(db.old) = <<"A", "B">> /\ q_columns(db.new) = <<"B", "A">>
    /\ ~res.schema_equal

\* C3: once both catalog reads have answered, the messages hold one
\* old-not-in-new message exactly when some old column is absent from new, one
\* new-not-in-old message exactly when some new column is absent from old, and
\* each names exactly the absent columns, once each.
C3_OneSchemaMessagePerDirection ==
    SchemaRead =>
        LET o == Range(q_columns(db.old))
            n == Range(q_columns(db.new))
            mn == MessagesOf({"miss_new"})
            mo == MessagesOf({"miss_old"})
        IN /\ Len(mn) = (IF o \ n # {} THEN 1 ELSE 0)
           /\ Len(mo) = (IF n \ o # {} THEN 1 ELSE 0)
           /\ \A i \in 1..Len(mn) :
                 Range(mn[i].cols) = o \ n /\ Len(mn[i].cols) = Cardinality(o \ n)
           /\ \A i \in 1..Len(mo) :
                 Range(mo[i].cols) = n \ o /\ Len(mo[i].cols) = Cardinality(n \ o)

\* old = (A), new = (A, B): one message, naming B as missing from old
C3_Witness ==
    /\ Returned /\ SchemaRead
    /\ q_columns(db.old) = <<"A">> /\ q_columns(db.new) = <<"A", "B">>
    /\ ~res.schema_equal
    /\ MessagesOf({"miss_new", "miss_old"}) = <<MissOldMsg(<<"B">>)>>

\* C4: when both sides hold the table with the same column list and the same
\* rows, and no query raised, the result is ok with both sample lists empty.
C4_IdenticalTablesAreOk ==
    (/\ Returned /\ raised = None
     /\ db.old.exists /\ db.new.exists
     /\ db.old.cols = db.new.cols /\ db.old.rows = db.new.rows)
    => (res.ok /\ res.only_in_old = <<>> /\ res.only_in_new = <<>>)

\* identical sides with rows in them
C4_Witness ==
    /\ Returned /\ raised = None
    /\ db.old.exists /\ db.new = db.old /\ q_rowcount(db.old) >= 2
    /\ res.ok

RowCountsDiffer ==
    db.old.exists /\ db.new.exists /\ q_rowcount(db.old) # q_rowcount(db.new)

HasRowCountMsg ==
    \E i \in 1..Len(res.messages) :
        res.messages[i] = RowCountMsg(q_rowcount(db.old), q_rowcount(db.new))

\* C5 as stated: for a table whose row counts differ the result is not ok
\* and carries a row-count-mismatch message.
C5_CountMismatchAlwaysReported == (Returned /\ RowCountsDiffer) => (~res.ok /\ HasRowCountMsg)

\* C5 amended: for a table whose row counts differ the result is not ok;
\* it carries a row-count-mismatch message whenever both row-count queries
\* answered, whether or not the checksums differ or a later query raises.
C5_CountMismatchReported ==
    (Returned /\ RowCountsDiffer) =>
        (~res.ok /\ (res.rowcount_new # None => HasRowCountMsg))

\* differing counts, reported, although a later query raised
C5_Witness ==
    Returned /\ RowCountsDiffer /\ HasRowCountMsg /\ raised # None

\* C6: the step at which a query raises ends compare_table with a returned
\* result: ok is false, the messages are the earlier ones plus one message
\* carrying the exception's description, and nothing else of the result changes.
C6_ExceptionBecomesResult ==
    [][(raised = None /\ raised' # None) =>
          /\ pc' = "return"
          /\ res' = [res EXCEPT !.ok = FALSE,
                                !.messages = Append(res.messages, ErrorMsg(raised'[1]))]]_vars

\* a row fetch raised after the probes had found the result ok no longer
C6_Witness ==
    /\ Returned /\ raised # None
    /\ queries[Len(queries)][1] = "select_top"
    /\ ~res.ok
    /\ res.messages[Len(res.messages)] = ErrorMsg(raised[1])

TablesOf(sh) == [i \in 1..Len(sh) |-> sh[i].table]

\* the with statement of the batch got both its connections
Connected == selected = <<>> \/ conns.new # "unopened"

\* C7: the results displayed so far are always those of a prefix of the
\* selection, in list order, and a batch that got its two connections ends
\* having displayed exactly one result for every selected table, whichever
\* queries raised on the way.
C7_EveryTableCompared ==
    /\ [](TablesOf(shown) = SubSeq(selected, 1, Len(shown)))
    /\ <>(pc = "end" /\ (Connected => TablesOf(shown) = selected))

\* the first table failed and the second was compared all the same
C7_Witness ==
    /\ pc = "end" /\ Len(selected) = 2 /\ Len(shown) = 2
    /\ shown[1].failed /\ ~shown[2].failed

\* C8: the two sample lists never hold more rows than the cap.
C8_CapRespected == Len(res.only_in_old) <= limit /\ Len(res.only_in_new) <= limit

\* a table with more rows than the cap, the list filled up to the cap
C8_Witness ==
    /\ Returned /\ raised = None
    /\ limit = 1 /\ q_rowcount(db.old) > limit
    /\ Len(res.only_in_old) = limit

\* both sides were sampled in full over a non-empty projection
FullySampled ==
    /\ Returned /\ raised = None /\ ~res.ok
    /\ limit >= q_rowcount(db.old) /\ limit >= q_rowcount(db.new)
    /\ res.columns_used # <<>>

OldSample == {Project(r, db.old.cols, res.columns_used) : r \in DOMAIN db.old.rows}
NewSample == {Project(r, db.new.cols, res.columns_used) : r \in DOMAIN db.new.rows}

Shows(list, p) == \E i \in 1..Len(list) : list[i] = RowDict(res.columns_used, StrRow(p))

\* C9 as stated: an old row is listed in only_in_old exactly when no row of
\* the new sample is equal to it, and likewise for only_in_new.
C9_ListsRowsWithoutEqualRow ==
    FullySampled =>
        /\ \A p \in OldSample : Shows(res.only_in_old, p) <=> p \notin NewSample
        /\ \A p \in NewSample : Shows(res.only_in_new, p) <=> p \notin OldSample

\* C9 amended: rows are compared by the text of their cells.  only_in_old
\* lists, once each, the old rows whose text equals the text of no row of the
\* new sample, and only_in_new likewise; each row is shown as a mapping from
\* column name to the cell's text.
C9_ListsRowsWithoutEqualText ==
    FullySampled =>
        LET so == {StrRow(p) : p \in OldSample}
            sn == {StrRow(p) : p \in NewSample}
        IN /\ Range(res.only_in_old) = {RowDict(res.columns_used, t) : t \in so \ sn}
           /\ Len(res.only_in_old) = Cardinality(so \ sn)
           /\ Range(res.only_in_new) = {RowDict(res.columns_used, t) : t \in sn \ so}
           /\ Len(res.only_in_new) = Cardinality(sn \ so)

\* old = {(1, x)}, new = {(1, y)} over (A, B)
C9_Witness ==
    /\ FullySampled
    /\ res.columns_used = <<"A", "B">>
    /\ OldSample = {<<IntCell(1), TextCell("x")>>}
    /\ NewSample = {<<IntCell(1), TextCell("y")>>}
    /\ res.only_in_old = <<[A |-> "1", B |-> "x"]>>
    /\ res.only_in_new = <<[A |-> "1", B |-> "y"]>>

\* the sampling step was entered: its first catalog read was issued
SamplingEntered == Len(queries) >= 7

NoCommonColumn ==
    db.old.exists /\ db.new.exists /\ Range(db.old.cols) \cap Range(db.new.cols) = {}

RowFetchIssued == \E i \in 1..Len(queries) : queries[i][1] = "select_top"

SampleFieldsEmpty ==
    res.only_in_old = <<>> /\ res.only_in_new = <<>> /\ res.columns_used = <<>>

\* C10 as stated: with no common column the sampling step never raises,
\* leaves the three sample fields empty and issues no row fetch.
C10_NoCommonColumnNeverRaises ==
    (Returned /\ SamplingEntered /\ NoCommonColumn) =>
        (raised = None /\ SampleFieldsEmpty /\ ~RowFetchIssued)

\* C10 amended: with no common column the sampling step issues its two
\* catalog reads and nothing else, no row fetch in particular, and leaves the
\* three sample fields empty though ok is false; it raises only if one of
\* those two catalog reads raises.
C10_NoCommonColumnNoFetch ==
    (Returned /\ SamplingEntered /\ NoCommonColumn) =>
        /\ SampleFieldsEmpty /\ ~RowFetchIssued /\ ~res.ok
        /\ Len(queries) <= 8
        /\ (raised = None => Len(queries) = 8)

\* old = (A), new = (B), the probes differ, the sampling step returns
C10_Witness ==
    /\ Returned /\ SamplingEntered /\ NoCommonColumn
    /\ raised = None /\ ~res.ok /\ SampleFieldsEmpty

\* C14: while tables are compared the batch holds exactly its two open
\* connections, and once the batch is over, however it ended, neither
\* connection is still open.
C14_ConnectionsReleased ==
    /\ pc \notin {"button", "end"} => conns = [old |-> "open", new |-> "open"]
    /\ pc = "end" => conns.old # "open" /\ conns.new # "open"

C15_NoRetry ==
    [][/\ (raised = None /\ raised' # None) =>
              /\ pc' = "return"
              /\ Len(queries') = Len(queries) + 1
              /\ res'.messages = Append(res.messages, ErrorMsg(raised'[1]))
       /\ raised # None =>
              /\ pc = "return"
              /\ pc' = "loop" /\ idx' = idx + 1 /\ queries' = <<>>]_vars

\* the fifth query failed, and it is the last one of the call
C15_Witness ==
    /\ Returned /\ raised = Some(ConnFailure)
    /\ Len(queries) = 5 /\ queries[5] = <<"q_checksum", "old">>

\* the four probes, in the order compare_table issues them
ProbeOrder ==
    << <<"q_rowcount", "old">>, <<"q_rowcount", "new">>,
       <<"q_checksum", "old">>, <<"q_checksum", "new">> >>

\* the probes issued by the running call, in order
ProbesIssued == SubSeq(queries, 3, Min(6, Len(queries)))

\* C17 as stated: once both catalog reads have answered, all four probes
\* are issued before compare_table returns.
C17_ProbesAlwaysIssued == Returned /\ SchemaRead => ProbesIssued = ProbeOrder

\* C17: once both catalog reads have answered, the row-count probe of the
\* old side is the next step whatever the schema check found, and the call
\* returns with the probes issued in their order, all four of them unless
\* one of them raised.
C17_SchemaMismatchGoesOn ==
    /\ SchemaRead /\ Len(queries) = 2 => pc = "rowcount_old"
    /\ Returned /\ SchemaRead =>
          /\ ProbesIssued = SubSeq(ProbeOrder, 1, Len(ProbesIssued))
          /\ Len(ProbesIssued) >= 1
          /\ Len(ProbesIssued) < 4 => raised # None

\* the schemas differ and all four probes answered
C17_Witness ==
    /\ Returned /\ ~res.schema_equal /\ raised = None
    /\ Len(queries) >= 6 /\ ProbesIssued = ProbeOrder
    /\ res.checksum_new # None

ChecksumsDiffer ==
    db.old.exists /\ db.new.exists /\ q_checksum(db.old) # q_checksum(db.new)

\* the mismatch messages of the result, in order
MismatchMessages == MessagesOf({"rowcount", "checksum"})

\* one message per dimension that differs, the row count first
MismatchReport(counts, sums) ==
    (IF counts THEN <<RowCountMsg(q_rowcount(db.old), q_rowcount(db.new))>> ELSE <<>>)
        \o (IF sums THEN <<ChecksumMsg>> ELSE <<>>)

\* C18 as stated: the result carries one mismatch message for each of the
\* two dimensions, row count and checksum, in which the tables differ, and
\* no other mismatch message.
C18_MismatchesAlwaysReported ==
    Returned => MismatchMessages = MismatchReport(RowCountsDiffer, ChecksumsDiffer)

\* C18: once the row-count probes have answered the checksum probe is the
\* next step, whether the counts differ or not, and the result carries one
\* mismatch message for each dimension whose two probes answered and
\* differ, and no other mismatch message.
C18_MismatchesReportedIndependently ==
    /\ Len(queries) = 4 /\ raised = None => pc = "checksum_old"
    /\ Returned =>
          MismatchMessages = MismatchReport(res.rowcount_new # None /\ RowCountsDiffer,
                                            res.checksum_new # None /\ ChecksumsDiffer)

\* both dimensions differ: two messages
C18_Witness ==
    /\ Returned /\ raised = None
    /\ RowCountsDiffer /\ ChecksumsDiffer
    /\ Len(MismatchMessages) = 2
    /\ MismatchMessages[1].kind = "rowcount" /\ MismatchMessages[2].kind = "checksum"

\* control is inside sample_row_diffs, or has been
InSampleDiff ==
    \/ pc \in {"common_old", "common_new", "fetch_old_columns", "fetch_old_rows",
               "fetch_new_columns", "fetch_new_rows", "diff"}
    \/ SamplingEntered

\* C19: sample_row_diffs is entered only when the four probes have answered
\* and left ok false; a call whose probes left ok true returns after its
\* sixth query with no row fetched and with only_in_old, only_in_new and
\* columns_used empty.
C19_SampleOnlyAfterFailedProbes ==
    /\ InSampleDiff =>
          /\ Len(queries) >= 6 /\ ProbesIssued = ProbeOrder
          /\ res.rowcount_old # None /\ res.rowcount_new # None
          /\ res.checksum_old # None /\ res.checksum_new # None
          /\ ~ProbesMatch /\ ~res.ok
    /\ Returned /\ res.ok =>
          /\ Len(queries) = 6 /\ ~RowFetchIssued /\ ~InSampleDiff
          /\ SampleFieldsEmpty

\* the probes left ok true and the call returned without sampling
C19_Witness ==
    /\ Returned /\ res.ok /\ ProbesMatch /\ res.checksum_new # None
    /\ Len(queries) = 6 /\ SampleFieldsEmpty
    /\ q_rowcount(db.old) > 0

\* the messages the schema check leaves for the two column lists
SchemaReport == SchemaCheck(InitRes(""), q_columns(db.old), q_columns(db.new)).messages

\* C20: in a result returned by the except clause after the k-th query
\* failed, every field set by a step before that query holds what the step
\* put there and every field of a later step holds its initial value: the
\* schema check follows query 2, the four probe values queries 3 to 6, the
\* two comparisons queries 4 and 6; the three sample fields are set only
\* when sample_row_diffs has returned, so they are empty; the messages are
\* those of the steps that ran, followed by the error message.
C20_PartialResultKeepsFields ==
    Returned /\ raised # None =>
        LET k == Len(queries) IN
        /\ res.schema_equal = (k > 2 => q_columns(db.old) = q_columns(db.new))
        /\ res.rowcount_old = IF k > 3 THEN Some(q_rowcount(db.old)) ELSE None
        /\ res.rowcount_new = IF k > 4 THEN Some(q_rowcount(db.new)) ELSE None
        /\ res.checksum_old = IF k > 5 THEN Some(q_checksum(db.old)) ELSE None
        /\ res.checksum_new = IF k > 6 THEN Some(q_checksum(db.new)) ELSE None
        /\ SampleFieldsEmpty
        /\ res.messages =
              (IF k > 2 THEN SchemaReport ELSE <<>>)
                  \o MismatchReport(k > 4 /\ RowCountsDiffer, k > 6 /\ ChecksumsDiffer)
                  \o <<ErrorMsg(raised[1])>>

\* the sixth query failed after a schema mismatch and a count mismatch
C20_Witness ==
    /\ Returned /\ raised # None /\ Len(queries) = 6
    /\ ~res.schema_equal /\ res.checksum_old # None /\ res.checksum_new = None
    /\ Len(res.messages) >= 3 /\ res.rowcount_old # res.rowcount_new

\* the first of two calls for the current table has returned, and so has
\* the second; no query raised in either
BothReturned ==
    /\ Returned /\ hist.prev # None
    /\ raised = None /\ hist.prev[1].raised = None

FirstResult == hist.prev[1].res

WithoutSamples(r) == [r EXCEPT !.only_in_old = <<>>, !.only_in_new = <<>>]

\* C11 as stated: two successive calls in which no query raised return
\* results equal in every field, the two sample lists and their order
\* included.
C11_SecondCallSameResult == BothReturned => res = FirstResult

\* C11: two successive calls in which no query raised return results equal
\* in every field but only_in_old and only_in_new; when neither side holds
\* more rows than the cap, each of these two lists holds the same rows in
\* both results, possibly in another order.
C11_SecondCallSameVerdict ==
    BothReturned =>
        /\ WithoutSamples(res) = WithoutSamples(FirstResult)
        /\ q_rowcount(db.old) <= limit /\ q_rowcount(db.new) <= limit =>
              /\ Range(res.only_in_old) = Range(FirstResult.only_in_old)
              /\ Len(res.only_in_old) = Len(FirstResult.only_in_old)
              /\ Range(res.only_in_new) = Range(FirstResult.only_in_new)
              /\ Len(res.only_in_new) = Len(FirstResult.only_in_new)

\* both calls sampled the whole of a two-row table and list its rows in
\* opposite orders
C11_Witness ==
    /\ BothReturned /\ q_rowcount(db.old) <= limit /\ q_rowcount(db.new) <= limit
    /\ Len(res.only_in_old) = 2
    /\ res.only_in_old # FirstResult.only_in_old

\* the table exists on both sides and holds the same columns and rows
EqualContent(d) == d.old.exists /\ d.old = d.new

\* C16: a comparison of two tables that hold equal content when it starts
\* and when it ends can return a count or checksum mismatch (the state of
\* C16_Witness), and it does so only when rows were written in between,
\* at least twice.
C16_SpuriousMismatchNeedsWriter ==
    Returned /\ EqualContent(hist.db0) /\ EqualContent(db) /\ MismatchMessages # <<>>
        => hist.writes >= 2

\* equal content at the start and at the end, no query raised, and the
\* result is not ok and reports a mismatch
C16_Witness ==
    /\ Returned /\ raised = None
    /\ EqualContent(hist.db0) /\ EqualContent(db)
    /\ ~res.ok /\ MismatchMessages # <<>>

\* the projection requested of fetch_table_sample by the preview
Requested == loc.cols

\* the frames fetch_table_sample has returned to the preview
Returns(P(_, _)) == \A i \in 1..Len(shown) : P(db[shown[i].side], shown[i].df)

\* C13 as stated: for a non-empty requested projection, every frame
\* fetch_table_sample returns holds at most cap rows and no column that
\* was not requested.
C13_OnlyRequestedColumns ==
    LET AsAsked(side, df) ==
            /\ BagSize(df.rows) <= limit
            /\ Range(df.columns) \subseteq Range(Requested)
    IN Requested # <<>> => Returns(AsAsked)

\* C13: for a non-empty requested projection, every frame fetch_table_sample
\* returns holds at most cap rows (all rows of the table if it has no more
\* than cap); its columns are the requested columns that the table has, in
\* the requested order, when there is one, and all the columns of the table
\* when the table has none of the requested columns.
C13_RequestedColumnsOrAll ==
    LET AsAsked(side, df) ==
            LET all_cols == q_columns(side)
                kept == AlsoIn(Requested, all_cols)
            IN /\ BagSize(df.rows) = Min(limit, q_rowcount(side))
               /\ df.columns = IF kept # <<>> THEN kept ELSE all_cols
    IN Requested # <<>> => Returns(AsAsked)

\* one of the two columns of a table was requested, of a table with more
\* rows than the cap: cap rows of that column are returned
C13_Witness ==
    /\ Len(shown) >= 1 /\ shown[1].side = "old"
    /\ Len(q_columns(db.old)) = 2 /\ Len(Requested) = 1
    /\ shown[1].df.columns = Requested
    /\ q_rowcount(db.old) > limit /\ BagSize(shown[1].df.rows) = limit

\* sample_row_diffs has returned its three values to compare_table
Sampled == Returned /\ raised = None /\ ~res.ok

\* s lists, without repetition, members of xs in the order they have in xs
InOrderOf(s, xs) ==
    \A i, j \in 1..Len(s) : i < j => IndexOf(xs, s[i]) < IndexOf(xs, s[j])

\* C21: the projection reported as columns_used, over which the row diff
\* is taken, holds exactly the column names that both catalogs list, each
\* once, in the order the old side lists them.
C21_ColumnsUsedAreCommonInOldOrder ==
    Sampled =>
        /\ Range(res.columns_used) = Range(q_columns(db.old)) \cap Range(q_columns(db.new))
        /\ InOrderOf(res.columns_used, q_columns(db.old))
        /\ \A i \in 1..Len(res.only_in_old) :
              DOMAIN res.only_in_old[i] = Range(res.columns_used)
        /\ \A i \in 1..Len(res.only_in_new) :
              DOMAIN res.only_in_new[i] = Range(res.columns_used)

\* old = (A, B), new = (B, A): the projection is (A, B)
C21_Witness ==
    /\ Sampled
    /\ q_columns(db.old) = <<"A", "B">> /\ q_columns(db.new) = <<"B", "A">>
    /\ res.columns_used = <<"A", "B">>
    /\ Len(res.only_in_old) >= 1

\* the rows of frame df as the row diff sees them: text tuples over columns_used
WindowTexts(df) == {StrRow(Project(r, df.columns, res.columns_used)) : r \in DOMAIN df.rows}

\* frame df holds the first cap rows fetched from side, cut to its columns
IsWindowOf(df, side) ==
    /\ BagSize(df.rows) = Min(limit, q_rowcount(side))
    /\ \A p \in DOMAIN df.rows :
          /\ df.rows[p] <= SumOver(side.rows, {r \in DOMAIN side.rows :
                                                  Project(r, side.cols, df.columns) = p})

ListsOnlyFrom(list, texts) ==
    \A i \in 1..Len(list) : \E t \in texts : list[i] = RowDict(res.columns_used, t)

\* C22: the row diff sees no more than the first cap rows fetched from
\* each side: every entry of only_in_old is a row of the old window and
\* every entry of only_in_new a row of the new window, and when the two
\* windows hold the same rows both lists are empty although ok is false.
C22_DiffSeesOnlyTheWindow ==
    Sampled /\ res.columns_used # <<>> =>
        /\ IsWindowOf(loc.df_old, db.old) /\ IsWindowOf(loc.df_new, db.new)
        /\ ListsOnlyFrom(res.only_in_old, WindowTexts(loc.df_old))
        /\ ListsOnlyFrom(res.only_in_new, WindowTexts(loc.df_new))
        /\ WindowTexts(loc.df_old) = WindowTexts(loc.df_new) =>
              res.only_in_old = <<>> /\ res.only_in_new = <<>>

\* old holds x and y, new holds x only, the cap is 1 and both windows hold
\* x: the difference lies beyond the window and both lists are empty
C22_Witness ==
    /\ Sampled /\ limit = 1 /\ res.columns_used # <<>>
    /\ q_rowcount(db.old) = 2 /\ q_rowcount(db.new) = 1
    /\ DOMAIN db.old.rows # DOMAIN db.new.rows
    /\ WindowTexts(loc.df_old) = WindowTexts(loc.df_new)
    /\ res.only_in_old = <<>> /\ res.only_in_new = <<>>

\* the text of a cell of the modelled tables: the int 1 reads "1"
AsText(c) == IF c = IntCell(1) THEN "1" ELSE c.s

\* row r of frame df as a mapping from the columns used to the cells' texts
TextDict(df, r) ==
    [c \in Range(res.columns_used) |-> AsText(r[IndexOf(df.columns, c)])]

Lists(list, d) == \E i \in 1..Len(list) : list[i] = d

\* C23: the row diff compares the texts of the cells: a sampled old row
\* and a sampled new row with the same texts, whatever the native types,
\* appear in neither list, and every entry of the two lists maps the
\* columns to the texts of a sampled row.
C23_RowsComparedAsText ==
    Sampled /\ res.columns_used # <<>> =>
        /\ \A r \in DOMAIN loc.df_old.rows, q \in DOMAIN loc.df_new.rows :
              TextDict(loc.df_old, r) = TextDict(loc.df_new, q) =>
                  /\ ~Lists(res.only_in_old, TextDict(loc.df_old, r))
                  /\ ~Lists(res.only_in_new, TextDict(loc.df_new, q))
        /\ \A i \in 1..Len(res.only_in_old) :
              \E r \in DOMAIN loc.df_old.rows : res.only_in_old[i] = TextDict(loc.df_old, r)
        /\ \A i \in 1..Len(res.only_in_new) :
              \E q \in DOMAIN loc.df_new.rows : res.only_in_new[i] = TextDict(loc.df_new, q)

\* old holds the integer 1, new holds the text "1": the checksums differ,
\* the sampled rows are equal as text and both lists are empty
C23_Witness ==
    /\ Sampled /\ res.columns_used = <<"A">> /\ limit >= 1
    /\ DOMAIN db.old.rows = {<<IntCell(1)>>} /\ DOMAIN db.new.rows = {<<TextCell("1")>>}
    /\ res.only_in_old = <<>> /\ res.only_in_new = <<>>

\* C24: every displayed result has exactly one of the three statuses:
\* identical exactly when ok and schema_equal are true, schema-drifted
\* exactly when ok is true and schema_equal false, content-different exactly
\* when ok is false, whatever schema_equal is; a result of the exception
\* path is content-different.
C24_ThreeStatuses ==
    \A i \in 1..Len(shown) :
        LET e == shown[i] IN
        /\ e.status \in {"identical", "schema_drifted", "content_different"}
        /\ e.status = "identical" <=> e.ok /\ e.schema_equal
        /\ e.status = "schema_drifted" <=> e.ok /\ ~e.schema_equal
        /\ e.status = "content_different" <=> ~e.ok
        /\ e.failed => e.status = "content_different"

\* a result that is not ok and whose schemas differ: content-different
C24_Witness ==
    /\ Len(shown) = 1
    /\ ~shown[1].ok /\ ~shown[1].schema_equal /\ ~shown[1].failed
    /\ shown[1].status = "content_different"

\* the step of compare_table a message comes from
StepOf(m) ==
    CASE m.kind = "miss_new" -> 1
      [] m.kind = "miss_old" -> 2
      [] m.kind = "rowcount" -> 3
      [] m.kind = "checksum" -> 4
      [] m.kind = "error" -> 5

\* C28: at every moment the messages of the result are in the order of the
\* steps: columns of old missing in new, columns of new missing in old, the
\* row-count mismatch, the checksum mismatch, the exception; so there is at
\* most one message of each kind, and an exception message is the last.
C28_MessagesOrderedByStep ==
    /\ \A i, j \in 1..Len(res.messages) :
          i < j => StepOf(res.messages[i]) < StepOf(res.messages[j])
    /\ raised # None <=> Len(MessagesOf({"error"})) = 1
    /\ raised # None => res.messages[Len(res.messages)] = ErrorMsg(raised[1])

\* all five messages, in order: a query of the sampling step raised
C28_Witness ==
    /\ Returned /\ Len(res.messages) = 5
    /\ [i \in 1..5 |-> res.messages[i].kind]
           = <<"miss_new", "miss_old", "rowcount", "checksum", "error">>

\* both sides list the same columns, hold no more rows than the cap, no
\* query failed and the result is not ok
AllInTheWindow ==
    /\ Sampled
    /\ q_columns(db.old) = q_columns(db.new)
    /\ q_rowcount(db.old) <= limit /\ q_rowcount(db.new) <= limit

\* the distinct rows of a table, as texts
TextRows(side) == {[i \in DOMAIN r |-> AsText(r[i])] : r \in DOMAIN side.rows}

HasEvidence == res.only_in_old # <<>> \/ res.only_in_new # <<>>

\* C29 as stated: a mismatch found with every row of both tables inside
\* the sample window comes with at least one sampled row as evidence.
C29_MismatchAlwaysHasEvidence == AllInTheWindow => HasEvidence

\* C29: a mismatch found with every row of both tables inside the sample
\* window comes with evidence exactly when the two tables differ in their
\* sets of distinct rows read as text; tables that differ only in how often
\* a row occurs, or only in the native type of a value, give none.
C29_EvidenceIffTextRowsDiffer ==
    AllInTheWindow => (HasEvidence <=> TextRows(db.old) # TextRows(db.new))

\* old holds the row x twice, new holds it once: the counts differ and
\* both lists are empty
C29_Witness ==
    /\ AllInTheWindow /\ ~HasEvidence
    /\ q_rowcount(db.old) = 2 /\ q_rowcount(db.new) = 1
    /\ DOMAIN db.old.rows = DOMAIN db.new.rows
    /\ HasRowCountMsg

MissingSomewhere == ~db.old.exists \/ ~db.new.exists

OnOneSideOnly == db.old.exists # db.new.exists

\* C30 as stated: the result for a table missing on a side is not ok, and
\* schema_equal is false when the table exists on exactly one side.
C30_MissingTableAlwaysFlagged ==
    Returned =>
        /\ MissingSomewhere => ~res.ok
        /\ OnOneSideOnly => ~res.schema_equal

\* C30: the result for a table missing on a side is not ok, so its status
\* is never identical; when the table exists on exactly one side
\* schema_equal is false once both catalog reads have answered; when it
\* exists on neither side schema_equal stays true and the comparison ends
\* with the first row-count query raising, unless a catalog read raised.
C30_MissingTableNeverIdentical ==
    Returned =>
        /\ MissingSomewhere => ~res.ok /\ raised # None /\ Len(queries) <= 4
        /\ OnOneSideOnly /\ SchemaRead => ~res.schema_equal
        /\ ~db.old.exists /\ ~db.new.exists =>
              /\ res.schema_equal
              /\ SchemaRead => raised # None /\ Len(queries) = 3

\* the table exists on neither side: equal (empty) schemas, not ok
C30_Witness ==
    /\ Returned /\ ~db.old.exists /\ ~db.new.exists
    /\ res.schema_equal /\ ~res.ok /\ raised = Some(MissingTable)
    /\ Len(res.messages) = 1

\* the text between the outer brackets
Inner(text) == SubSeq(text, 2, Len(text) - 1)

\* every closing bracket of s is one of a pair of two
RECURSIVE Doubled(_)
Doubled(s) ==
    IF s = <<>> THEN TRUE
    ELSE IF Head(s) = "]"
         THEN Len(s) >= 2 /\ s[2] = "]" /\ Doubled(SubSeq(s, 3, Len(s)))
         ELSE Doubled(Tail(s))

\* s with every pair of closing brackets made one
RECURSIVE Undoubled(_)
Undoubled(s) ==
    IF s = <<>> THEN <<>>
    ELSE IF Head(s) = "]" /\ Len(s) >= 2 /\ s[2] = "]"
         THEN <<"]">> \o Undoubled(SubSeq(s, 3, Len(s)))
         ELSE <<Head(s)>> \o Undoubled(Tail(s))

HasQuoted == quoted # NoIdent

\* C25: the quoted text is the name between one pair of square brackets
\* with every closing bracket doubled: taking the outer brackets off and
\* making every pair of closing brackets one gives the name back, no other
\* name has the same quoted text, and between the outer brackets every
\* closing bracket is one of a pair.
C25_QuoteIdentInjective ==
    HasQuoted =>
        /\ Len(quoted.text) >= 2
        /\ Head(quoted.text) = "[" /\ quoted.text[Len(quoted.text)] = "]"
        /\ Undoubled(Inner(quoted.text)) = quoted.name
        /\ \A other \in Names : quote_ident(other) = quoted.text => other = quoted.name
        /\ Doubled(Inner(quoted.text))
        /\ Len(quoted.text) = Len(quoted.name) + 2
               + Cardinality({i \in 1..Len(quoted.name) : quoted.name[i] = "]"})

\* the name a]][ is quoted as [a]]]][]
C25_Witness ==
    /\ quoted.name = <<"a", "]", "]", "[">>
    /\ quoted.text = <<"[", "a", "]", "]", "]", "]", "[", "]">>

\* q_sample_diff of test3.py has returned its three values for tables
\* whose rows all lie within the first limit rows
Test3Sampled ==
    /\ Returned /\ hist.prev # None /\ raised = None
    /\ ~res.ok /\ res.columns_used # <<>>
    /\ q_rowcount(db.old) <= limit /\ q_rowcount(db.new) <= limit

\* the rows of side a, over the columns used, that side b does not hold
RowsMissingIn(a, b) ==
    {Project(r, a.cols, res.columns_used) : r \in DOMAIN a.rows}
        \ {Project(r, b.cols, res.columns_used) : r \in DOMAIN b.rows}

RowsListed(list) == {list[i] : i \in 1..Len(list)}

\* C26: q_sample_diff of test3.py lists in only_in_old rows of OLD that are
\* not in NEW and in only_in_new rows of NEW that are not in OLD, over the
\* common columns, and a list is non-empty whenever there is such a row
\* within the first limit rows.
C26_SampleDiffListsTheDifferences ==
    Test3Sampled =>
        /\ res.columns_used = common_columns(q_columns(db.old), q_columns(db.new))
        /\ RowsListed(res.only_in_old)
               \subseteq {RowDict(res.columns_used, t) : t \in RowsMissingIn(db.old, db.new)}
        /\ RowsListed(res.only_in_new)
               \subseteq {RowDict(res.columns_used, t) : t \in RowsMissingIn(db.new, db.old)}
        /\ RowsMissingIn(db.old, db.new) # {} => res.only_in_old # <<>>
        /\ RowsMissingIn(db.new, db.old) # {} => res.only_in_new # <<>>

\* C27 as stated: given the same tables, compare_table of test3.py returns
\* the same schema_equal, ok, row counts, checksums, messages and sample
\* lists as compare_table of db_compare_app.py.
C27_Test3SameResult ==
    BothReturned =>
        /\ res.schema_equal = FirstResult.schema_equal
        /\ res.ok = FirstResult.ok
        /\ res.rowcount_old = FirstResult.rowcount_old
        /\ res.rowcount_new = FirstResult.rowcount_new
        /\ res.checksum_old = FirstResult.checksum_old
        /\ res.checksum_new = FirstResult.checksum_new
        /\ res.messages = FirstResult.messages
        /\ RowsListed(res.only_in_old) = RowsListed(FirstResult.only_in_old)
        /\ RowsListed(res.only_in_new) = RowsListed(FirstResult.only_in_new)

\* what the two engines do agree on: the row counts; a schema that
\* db_compare_app.py finds equal, test3.py finds equal too; and on column
\* lists that are the same on both sides the two results are equal in every
\* field but the sample lists, which test3.py always returns empty
Test3AgreesButForSamples ==
    BothReturned =>
        /\ res.rowcount_old = FirstResult.rowcount_old
        /\ res.rowcount_new = FirstResult.rowcount_new
        /\ FirstResult.schema_equal => res.schema_equal
        /\ q_columns(db.old) = q_columns(db.new)
               => WithoutSamples(res) = WithoutSamples(FirstResult)
        /\ res.only_in_old = <<>> /\ res.only_in_new = <<>>

\* db_compare_app.py listed a row of each side, test3.py none
Test3ListsNothing ==
    /\ BothReturned
    /\ FirstResult.only_in_old # <<>> /\ FirstResult.only_in_new # <<>>
    /\ res.only_in_old = <<>> /\ res.only_in_new = <<>>
    /\ WithoutSamples(res) = WithoutSamples(FirstResult)

====
